---- MODULE Spec2Model ----
(***************************************************************************)
(* Quiz Vocacional Juridico (src/quizvocacional/app.py): scoring of an     *)
(* answer set, the enrichment call with its fallbacks, the result file     *)
(* written through pandas, the submit handler and the dashboard.           *)
(*                                                                         *)
(* Texts that the program parses or formats (names typed by the user, CSV  *)
(* cells, texts returned by the service) are sequences of one-character    *)
(* strings, so that parsing and formatting are computed and not assumed.   *)
(***************************************************************************)
EXTENDS Integers, Sequences, FiniteSets, TLC

VARIABLES
    \* --- calcular_resultados applied to an answer set (SpecScore) ---
    respostas_usuario,  \* the answer set: sequence of the dict's values
    resultados,         \* the per-category counts returned, or <<>>
    carreira_final,     \* the winner returned, or Nada
    \* --- get_gemini_descricao applied in an environment (SpecGemini) ---
    carreira_codigo,    \* the code requested
    ambiente,           \* what the library and the service do in this call
    retorno,            \* what the call gave back: [tipo, texto]
    \* --- the application: sessions, the result file (Spec) ---
    arquivo,            \* resultados.csv: Ausente, or the sequence of its rows
    relogio,            \* datetime.now(), as a tick counter
    pc,                 \* per session: position in the script run
    loc,                \* per session: the locals of the script run
    etapas,             \* per session: the steps the run in progress has made
    tela,               \* per session: what the run in progress has put on
                        \* the quiz tab
    painel,             \* the dashboard tab as last rendered (by any session)
    gravados            \* history: the records written, in completion order,
                        \* each with the number of rows its call had read

varsScore == <<respostas_usuario, resultados, carreira_final>>
varsGemini == <<carreira_codigo, ambiente, retorno>>
varsApp == <<arquivo, relogio, pc, loc, etapas, tela, painel, gravados>>
vars == <<varsScore, varsGemini, varsApp>>

\* A value that is no category code, no record and no text.
Nada == "Nada"

\* Python's None as an answer value.
None == "None"

(***************************************************************************)
(* The category registry.                                                  *)
(***************************************************************************)

\* CARREIRAS.keys(), in the dict's iteration (insertion) order.
CARREIRAS == <<"advocacia", "magistratura", "ministerio_publico", "consultoria">>

Codigos == {CARREIRAS[i] : i \in 1..Len(CARREIRAS)}

\* A code that is not in the registry (a perguntas.json option may carry one).
Desconhecido == "notariado"

(***************************************************************************)
(* calcular_resultados                                                     *)
(***************************************************************************)

\* resultados = {c: 0 for c in CARREIRAS.keys()}
Zerado == [c \in Codigos |-> 0]

\* A faulty variant of Contar: the membership test is dropped for None, which is
\* then tallied under the first category.
ContarSemFiltro(respostas, i, acc) ==
    LET carreira == IF respostas[i] = None THEN CARREIRAS[1] ELSE respostas[i]
    IN IF carreira \in DOMAIN acc
       THEN [acc EXCEPT ![carreira] = @ + 1]
       ELSE acc

\* A faulty variant of Contar: the counter is set rather than raised.
ContarAtribui(respostas, i, acc) ==
    LET carreira == respostas[i]
    IN IF carreira \in DOMAIN acc /\ carreira # None
       THEN [acc EXCEPT ![carreira] = 1]
       ELSE acc

\* One iteration of the loop at lines 149-151.
Contar(respostas, i, acc) ==
    LET carreira == respostas[i]
    IN IF carreira \in DOMAIN acc /\ carreira # None
       THEN [acc EXCEPT ![carreira] = @ + 1]
       ELSE acc

RECURSIVE Tally(_, _, _)
\* The loop at lines 149-151, from answer i on.
Tally(respostas, i, acc) ==
    IF i > Len(respostas) THEN acc
    ELSE Tally(respostas, i + 1, Contar(respostas, i, acc))

\* A faulty variant of Melhor: a later key with an equal count replaces the best.
MelhorUltimo(res, melhor, c) == IF res[c] >= res[melhor] THEN c ELSE melhor

\* max(iterable, key=f) keeps the item seen first among those with the
\* largest key: a later item replaces it only when its key is greater.
Melhor(res, melhor, c) == IF res[c] > res[melhor] THEN c ELSE melhor

RECURSIVE MaxChave(_, _, _)
\* max(resultados, key=resultados.get) over the keys from position i on.
MaxChave(res, i, melhor) ==
    IF i > Len(CARREIRAS) THEN melhor
    ELSE MaxChave(res, i + 1, Melhor(res, melhor, CARREIRAS[i]))

\* calcular_resultados(respostas_usuario) -> (resultados, carreira_final)
calcular_resultados(respostas) ==
    LET res == Tally(respostas, 1, Zerado)
    IN [resultados |-> res, carreira_final |-> MaxChave(res, 2, CARREIRAS[1])]

\* The number of questions of the answer sets drawn.
MaxPerguntas == 4

RespostasPossiveis == Codigos \cup {None, Desconhecido}

ConjuntosDeRespostas ==
    UNION {[1..n -> RespostasPossiveis] : n \in 0..MaxPerguntas}

InitScoreVars ==
    /\ respostas_usuario \in ConjuntosDeRespostas
    /\ resultados = <<>>
    /\ carreira_final = Nada

\* One call of calcular_resultados on the answer set drawn.
Pontuar ==
    /\ carreira_final = Nada
    /\ resultados' = calcular_resultados(respostas_usuario).resultados
    /\ carreira_final' = calcular_resultados(respostas_usuario).carreira_final
    /\ UNCHANGED respostas_usuario

(***************************************************************************)
(* get_gemini_descricao                                                    *)
(***************************************************************************)

\* DESCRICOES_BASE: the static description of each category (abridged; the
\* texts differ per category and neither starts nor ends with a blank).
DESCRICOES_BASE == [c \in Codigos |-> <<"A", " ", c, ".">>]

Branco == " "

RECURSIVE LStrip(_)
LStrip(t) == IF t # <<>> /\ Head(t) = Branco THEN LStrip(Tail(t)) ELSE t

RECURSIVE RStrip(_)
RStrip(t) ==
    IF t # <<>> /\ t[Len(t)] = Branco THEN RStrip(SubSeq(t, 1, Len(t) - 1)) ELSE t

\* str.strip()
Strip(t) == RStrip(LStrip(t))

\* What a generation call can do: raise, or give a response object whose
\* .text is missing/None (sem_text), or a string, and whose str() is a string.
Resposta(levanta, sem_text, text, str) ==
    [levanta |-> levanta, sem_text |-> sem_text, text |-> text, str |-> str]

TextoGerado == <<" ", "o", "k", " ">>
ReprObjeto == <<"<", "r", ">">>

Levanta == Resposta(TRUE, TRUE, <<>>, <<>>)

\* Outcomes of client.models.generate_content (only .text is read).
RespostasGenerateContent ==
    { Levanta,
      Resposta(FALSE, TRUE, <<>>, ReprObjeto),
      Resposta(FALSE, FALSE, <<>>, ReprObjeto),
      Resposta(FALSE, FALSE, <<Branco>>, ReprObjeto),
      Resposta(FALSE, FALSE, TextoGerado, ReprObjeto) }

\* Outcomes of genai.generate_text (.text and str() are read).
RespostasGenerateText ==
    RespostasGenerateContent \cup { Resposta(FALSE, TRUE, <<>>, <<>>) }

Ambientes ==
    [ lib : BOOLEAN,                          \* GEMINI_LIB_DISPONIVEL
      secrets : {"levanta", "vazio", "chave"}, \* st.secrets.get(...)
      environ : {"vazio", "chave"},           \* os.environ.get(...)
      configure : {"ok", "levanta"},          \* genai.configure(...)
      client : {"ok", "levanta"},             \* genai.Client()
      generate_content : RespostasGenerateContent,
      generate_text : RespostasGenerateText ]

Retornou(t) == [tipo |-> "retorno", texto |-> t]
Levantou == [tipo |-> "excecao", texto |-> <<>>]
Pendente == [tipo |-> "pendente", texto |-> <<>>]

Segue == [tipo |-> "segue", texto |-> <<>>]

\* try: corpo / except Exception: tratador -- an exception raised by the
\* body is replaced by what the handler does; anything else passes.
TryExcept(corpo, tratador) == IF corpo.tipo = "excecao" THEN tratador ELSE corpo

\* Lines 79-86: the key from st.secrets (an exception there is caught at
\* line 82 and gives None), else from the process environment.
ApiKey(amb) ==
    LET de_secrets ==
            TryExcept(IF amb.secrets = "levanta" THEN Levantou
                      ELSE [tipo |-> amb.secrets, texto |-> <<>>],
                      [tipo |-> "vazio", texto |-> <<>>]).tipo
    IN IF de_secrets = "vazio" THEN amb.environ ELSE de_secrets

\* Lines 110-113: client = genai.Client(), None when that raises.
Client(amb) ==
    TryExcept(IF amb.client = "levanta" THEN Levantou
              ELSE [tipo |-> "client", texto |-> <<>>],
              [tipo |-> "None", texto |-> <<>>]).tipo

\* Lines 115-127: the attempt through the client. "retorno" when the
\* function returns from inside it, "segue" when control goes on to the
\* alternative (no client, an exception caught at line 125, a falsy text).
TentativaClient(amb) ==
    LET r == amb.generate_content
        texto_falso == r.sem_text \/ r.text = <<>>
    IN IF Client(amb) = "None" THEN Segue
       ELSE TryExcept(IF r.levanta THEN Levantou
                      ELSE IF texto_falso THEN Segue
                      ELSE Retornou(Strip(r.text)),
                      Segue)

\* Lines 130-137: the alternative attempt; texto = res.text or str(res).
TentativaGenerateText(amb) ==
    LET res == amb.generate_text
        texto == IF res.sem_text \/ res.text = <<>> THEN res.str ELSE res.text
    IN TryExcept(IF res.levanta THEN Levantou
                 ELSE IF texto = <<>> THEN Segue
                 ELSE Retornou(Strip(texto)),
                 Segue)

\* Lines 107-143: the outer try, whose handler returns the base text, and
\* the final return.
Gerar(amb, descricao_base) ==
    LET corpo == IF TentativaClient(amb).tipo # "segue" THEN TentativaClient(amb)
                 ELSE TentativaGenerateText(amb)
        fim == TryExcept(corpo, Retornou(descricao_base))
    IN IF fim.tipo = "segue" THEN Retornou(descricao_base) ELSE fim

\* get_gemini_descricao(carreira_codigo) in the environment amb. The call
\* of genai.configure (lines 92-96) has its exception swallowed and gives
\* nothing the rest reads.
get_gemini_descricao(codigo, amb) ==
    LET descricao_base ==
            IF codigo \in DOMAIN DESCRICOES_BASE THEN DESCRICOES_BASE[codigo] ELSE <<>>
    IN IF ~amb.lib THEN Retornou(descricao_base)
       ELSE IF ApiKey(amb) = "vazio" THEN Retornou(descricao_base)
       ELSE Gerar(amb, descricao_base)

InitGeminiVars ==
    /\ carreira_codigo \in Codigos
    /\ ambiente \in Ambientes
    /\ retorno = Pendente

\* One call of get_gemini_descricao in the environment drawn.
Enriquecer ==
    /\ retorno = Pendente
    /\ retorno' = get_gemini_descricao(carreira_codigo, ambiente)
    /\ UNCHANGED <<carreira_codigo, ambiente>>

(***************************************************************************)
(* The result file: pandas to_csv / read_csv on resultados.csv             *)
(***************************************************************************)

Digitos == <<"0", "1", "2", "3", "4", "5", "6", "7", "8", "9">>

EhDigito(ch) == \E d \in 1..Len(Digitos) : Digitos[d] = ch

ValorDigito(ch) == (CHOOSE d \in 1..Len(Digitos) : Digitos[d] = ch) - 1

RECURSIVE IntParaTexto(_)
\* str(n) of a non-negative integer.
IntParaTexto(n) ==
    IF n < Len(Digitos) THEN <<Digitos[n + 1]>>
    ELSE IntParaTexto(n \div Len(Digitos)) \o <<Digitos[(n % Len(Digitos)) + 1]>>

RECURSIVE TextoParaInt(_, _)
\* The integer a run of digits denotes (leading zeros carry no value).
TextoParaInt(t, acc) ==
    IF t = <<>> THEN acc
    ELSE TextoParaInt(Tail(t), acc * Len(Digitos) + ValorDigito(Head(t)))

SoDigitos(t) == \A i \in 1..Len(t) : EhDigito(t[i])

RECURSIVE SemZerosFinais(_)
SemZerosFinais(t) ==
    IF t # <<>> /\ t[Len(t)] = "0" THEN SemZerosFinais(SubSeq(t, 1, Len(t) - 1)) ELSE t

\* The values a DataFrame cell holds: a string, an int64, a float64 (its
\* integer part n and its fraction digits s), or VNaN.
VStr(t) == [t |-> "str", s |-> t, n |-> 0]
VInt(n) == [t |-> "int", s |-> <<>>, n |-> n]
VFloat(n, frac) == [t |-> "float", s |-> frac, n |-> n]
VNaN == [t |-> "nan", s |-> <<>>, n |-> 0]

\* The cell texts read_csv takes for a missing value (pandas' default
\* na_values, those of at most four characters over the letters used here).
NA_VALUES ==
    { <<>>, <<"N", "A">>, <<"N", "a", "N">>, <<"n", "a", "n">>,
      <<"N", "/", "A">>, <<"n", "/", "a">>, <<"N", "U", "L", "L">>,
      <<"n", "u", "l", "l">>, <<"#", "N", "A">> }

EhNA(t) == t \in NA_VALUES

EhInteiro(t) == t # <<>> /\ SoDigitos(t)

\* digits "." digits, with a digit on at least one side.
EhDecimal(t) ==
    \E k \in 1..Len(t) :
        /\ t[k] = "."
        /\ SoDigitos(SubSeq(t, 1, k - 1))
        /\ SoDigitos(SubSeq(t, k + 1, Len(t)))
        /\ Len(t) > 1

PosicaoPonto(t) == CHOOSE k \in 1..Len(t) : t[k] = "."

\* The float64 a numeric text denotes.
TextoParaFloat(t) ==
    IF EhInteiro(t) THEN VFloat(TextoParaInt(t, 0), <<>>)
    ELSE VFloat(TextoParaInt(SubSeq(t, 1, PosicaoPonto(t) - 1), 0),
               SemZerosFinais(SubSeq(t, PosicaoPonto(t) + 1, Len(t))))

\* read_csv's type inference on one column: int64 when every cell is an
\* integer, float64 when every cell is a number or missing, else object,
\* where the cells stay strings and the missing ones are VNaN.
ParseColumn(textos) ==
    LET presentes == {i \in 1..Len(textos) : ~EhNA(textos[i])}
        faltam == presentes # 1..Len(textos)
    IN IF ~faltam /\ \A i \in presentes : EhInteiro(textos[i])
       THEN [i \in 1..Len(textos) |-> VInt(TextoParaInt(textos[i], 0))]
       ELSE IF \A i \in presentes : EhInteiro(textos[i]) \/ EhDecimal(textos[i])
       THEN [i \in 1..Len(textos) |->
                IF i \in presentes THEN TextoParaFloat(textos[i]) ELSE VNaN]
       ELSE [i \in 1..Len(textos) |->
                IF i \in presentes THEN VStr(textos[i]) ELSE VNaN]

\* to_csv's text of one cell: na_rep is "", a float is written by repr.
FormatCell(v) ==
    CASE v.t = "str" -> v.s
      [] v.t = "int" -> IntParaTexto(v.n)
      [] v.t = "float" -> IntParaTexto(v.n) \o <<".">> \o (IF v.s = <<>> THEN <<"0">> ELSE v.s)
      [] OTHER -> <<>>

\* A row, of a DataFrame (cells are values) or of the file (cells are
\* texts). The perc_<code> columns, floats derived from the pontos_<code>
\* columns, are left out.
Linha(timestamp, nome, carreira, pontos) ==
    [timestamp |-> timestamp, nome |-> nome, carreira_final |-> carreira,
     pontos |-> pontos]

\* DataFrame.to_csv("resultados.csv", index=False): the rows of the file.
to_csv(df) ==
    [i \in 1..Len(df) |->
        Linha(FormatCell(df[i].timestamp), FormatCell(df[i].nome),
              FormatCell(df[i].carreira_final),
              [c \in Codigos |-> FormatCell(df[i].pontos[c])])]

\* pd.read_csv("resultados.csv") of a file that exists: column by column.
read_csv(linhas) ==
    LET col_timestamp == ParseColumn([i \in 1..Len(linhas) |-> linhas[i].timestamp])
        col_nome == ParseColumn([i \in 1..Len(linhas) |-> linhas[i].nome])
        col_carreira == ParseColumn([i \in 1..Len(linhas) |-> linhas[i].carreira_final])
        col_pontos == [c \in Codigos |->
                          ParseColumn([i \in 1..Len(linhas) |-> linhas[i].pontos[c]])]
    IN [i \in 1..Len(linhas) |->
           Linha(col_timestamp[i], col_nome[i], col_carreira[i],
                 [c \in Codigos |-> col_pontos[c][i]])]

\* The file: absent, or present with its rows.
Ausente == [existe |-> FALSE, linhas |-> <<>>]
Presente(linhas) == [existe |-> TRUE, linhas |-> linhas]

\* datetime.now().isoformat() at tick r: a text that is no number.
Timestamp(r) == <<"T">> \o IntParaTexto(r)

\* Lines 158-168: the one-row DataFrame nova_linha.
NovaLinha(r, nome, res, carreira) ==
    Linha(VStr(Timestamp(r)), VStr(nome), VStr(<<carreira>>),
          [c \in Codigos |-> VInt(res[c])])

\* Lines 170-174: df is the rows read followed by the new row, or the new
\* row alone when read_csv raised FileNotFoundError.
Concatenar(achou, existente, nova_linha) ==
    IF achou THEN existente \o <<nova_linha>> ELSE <<nova_linha>>

(***************************************************************************)
(* The dashboard aggregation (lines 324-326)                               *)
(***************************************************************************)

\* CARREIRAS: the display name of each code.
CARREIRAS_NOME ==
    [c \in Codigos |->
        CASE c = "advocacia" -> "Advocacia"
          [] c = "magistratura" -> "Magistratura"
          [] c = "ministerio_publico" -> "Ministerio Publico"
          [] OTHER -> "Consultoria Juridica"]

\* A faulty variant of ContarValor: a value already seen is not counted again.
ContarValorUmaVez(acc, v) ==
    IF v.t = "nan" \/ FormatCell(v) \in DOMAIN acc THEN acc
    ELSE acc @@ (FormatCell(v) :> 1)

\* value_counts() on one value: a value not seen yet gets a row of its own
\* with count 1, a value seen has its count raised; NaN is dropped.
ContarValor(acc, v) ==
    IF v.t = "nan" THEN acc
    ELSE IF FormatCell(v) \in DOMAIN acc
    THEN [acc EXCEPT ![FormatCell(v)] = @ + 1]
    ELSE acc @@ (FormatCell(v) :> 1)

RECURSIVE value_counts(_, _, _)
\* Series.value_counts() over the rows from i on: value -> count.
value_counts(coluna, i, acc) ==
    IF i > Len(coluna) THEN acc
    ELSE value_counts(coluna, i + 1, ContarValor(acc, coluna[i]))

RECURSIVE Soma(_, _)
\* dist["qtd"].sum()
Soma(f, chaves) ==
    IF chaves = {} THEN 0
    ELSE LET k == CHOOSE x \in chaves : TRUE
         IN f[k] + Soma(f, chaves \ {k})

\* Series.map(CARREIRAS): the display name, NaN for a value that is no key.
MapCarreiras(k) ==
    IF Len(k) = 1 /\ k[1] \in Codigos THEN CARREIRAS_NOME[k[1]] ELSE "NaN"

\* Lines 324-326: dist, one row per value that occurs in the column
\* carreira_final (the rows' order is left out). Percentual, the float
\* qtd / qtd.sum() * 100, is kept as the quotient num / den it rounds.
Dist(df_res) ==
    LET qtd == value_counts([i \in 1..Len(df_res) |-> df_res[i].carreira_final],
                            1, <<>>)
        total == Soma(qtd, DOMAIN qtd)
    IN [k \in DOMAIN qtd |->
           [carreira |-> k, qtd |-> qtd[k], Carreira |-> MapCarreiras(k),
            Percentual |-> [num |-> qtd[k] * 100, den |-> total]]]

(***************************************************************************)
(* The script: a run of the quiz tab with or without a submission, then    *)
(* the dashboard tab. Each browser session runs the script on its own;     *)
(* the runs share resultados.csv.                                          *)
(***************************************************************************)

Sessoes == {1, 2}

\* How many accepted submissions the sessions make in all, with one run at
\* a time and with the runs interleaved.
MaxEnvios == 2
MaxEnviosConcorrentes == 3

\* The ids of the questions of perguntas.json.
PerguntasIds == {1, 2}

\* The names typed: none, a plain one, one that reads as a missing value,
\* one that reads as a number.
NomesDigitados == { <<>>, <<"A", "n", "a">>, <<"N", "A">>, <<"0", "7">> }

\* The names typed in the interleaved runs.
NomesConcorrentes == { <<"A", "n", "a">> }

\* The selections of a submitted form, by question id.
FormulariosEnviados == [PerguntasIds -> {CARREIRAS[1], CARREIRAS[2], None}]

\* The forms submitted in the interleaved runs: the same selection for
\* every question, or the first question left without one.
FormulariosConcorrentes ==
    { f \in FormulariosEnviados :
        \/ \A q \in PerguntasIds : f[q] = CARREIRAS[1]
        \/ \A q \in PerguntasIds : f[q] = CARREIRAS[2]
        \/ \A q \in PerguntasIds : f[q] = (IF q = 1 THEN None ELSE CARREIRAS[1]) }

\* What the library and the service do during a submission: the library is
\* missing, or the client gives a text.
AmbientesDoApp ==
    { [lib |-> FALSE, secrets |-> "vazio", environ |-> "vazio", configure |-> "ok",
       client |-> "ok", generate_content |-> Levanta, generate_text |-> Levanta],
      [lib |-> TRUE, secrets |-> "levanta", environ |-> "chave", configure |-> "levanta",
       client |-> "ok",
       generate_content |-> Resposta(FALSE, FALSE, TextoGerado, ReprObjeto),
       generate_text |-> Levanta] }

LinhaVazia == Linha(VNaN, VNaN, VNaN, [c \in Codigos |-> VNaN])

\* The locals of a run; nulo is history: the form submitted in this run
\* had a question without a selection.
LocVazio ==
    [nome |-> <<>>, respostas_usuario |-> <<>>, resultados |-> Zerado,
     carreira_final |-> Nada, descricao_carreira |-> <<>>, nova_linha |-> LinhaVazia,
     achou |-> FALSE, existente |-> <<>>, pdf_bytes |-> FALSE, nulo |-> FALSE]

\* The dashboard tab: nothing yet, the note that there is no data, or the
\* total and dist (the raw rows shown by st.dataframe are left out).
PainelVazio == [tipo |-> "nada", total |-> 0, dist |-> <<>>]
PainelSemDados == [tipo |-> "sem_dados", total |-> 0, dist |-> <<>>]
PainelDados(df_res) == [tipo |-> "dados", total |-> Len(df_res), dist |-> Dist(df_res)]

\* A faulty variant of Incompleto: the validation lets every form through.
IncompletoNunca(respostas) == FALSE

\* Line 259: any(v is None for v in respostas_usuario.values())
Incompleto(respostas) == \E q \in DOMAIN respostas : respostas[q] = None

\* The dict's values, in the order of the question ids.
Valores(respostas) == [i \in 1..Cardinality(DOMAIN respostas) |-> respostas[i]]

\* A faulty variant of Seguinte: the record is saved right after the scoring and
\* the description is asked for afterwards.
SeguintePersistePrimeiro(p) ==
    CASE p = "pontuar" -> "ler"
      [] p = "ler" -> "gravar"
      [] p = "gravar" -> "enriquecer"
      [] p = "enriquecer" -> "pdf"
      [] p = "pdf" -> "responder"
      [] OTHER -> "painel"

\* The order of the statements of the accepted branch (lines 262-313) and
\* of the dashboard tab after it: where a run goes from position p.
Seguinte(p) ==
    CASE p = "pontuar" -> "enriquecer"    \* line 262, then line 296
      [] p = "enriquecer" -> "ler"        \* line 296, then line 300
      [] p = "ler" -> "gravar"            \* line 171, then line 176
      [] p = "gravar" -> "pdf"            \* line 300, then line 303
      [] p = "pdf" -> "responder"         \* line 303, then line 304
      [] OTHER -> "painel"                \* line 313, then line 316

\* A faulty variant of RenderPainel: FileNotFoundError is not caught.
RenderPainelSemExcept(arq) ==
    IF arq.existe THEN PainelDados(read_csv(arq.linhas))
    ELSE [tipo |-> "excecao", total |-> 0, dist |-> <<>>]

\* Lines 319-353: the dashboard of the file arq; FileNotFoundError gives
\* the note that there is no data yet.
RenderPainel(arq) ==
    IF arq.existe THEN PainelDados(read_csv(arq.linhas)) ELSE PainelSemDados

Aceitos == Len(gravados) +
    Cardinality({s \in Sessoes : pc[s] \in {"pontuar", "enriquecer", "ler", "gravar"}})

InitAppVars ==
    /\ arquivo = Ausente
    /\ relogio = 0
    /\ pc = [s \in Sessoes |-> "ocioso"]
    /\ loc = [s \in Sessoes |-> LocVazio]
    /\ etapas = [s \in Sessoes |-> <<>>]
    /\ tela = [s \in Sessoes |-> <<>>]
    /\ painel = PainelVazio
    /\ gravados = <<>>

\* Lines 233-261: the form is submitted; the validation either rejects it
\* with st.error or lets the run go on to the scoring.
Enviar(s, nome, respostas, max_envios) ==
    /\ pc[s] = "ocioso"
    /\ Aceitos < max_envios
    /\ loc' = [loc EXCEPT ![s] =
                  [LocVazio EXCEPT !.nome = nome, !.respostas_usuario = respostas,
                                   !.nulo = \E q \in PerguntasIds : respostas[q] = None]]
    /\ etapas' = [etapas EXCEPT ![s] = <<"validar">>]
    /\ IF Incompleto(respostas)
       THEN /\ tela' = [tela EXCEPT ![s] = <<"erro">>]
            /\ pc' = [pc EXCEPT ![s] = "painel"]
       ELSE /\ tela' = [tela EXCEPT ![s] = <<>>]
            /\ pc' = [pc EXCEPT ![s] = "pontuar"]
    /\ UNCHANGED <<arquivo, relogio, painel, gravados>>

\* The script runs without a submission (the page is opened or refreshed).
Visitar(s) ==
    /\ pc[s] = "ocioso"
    /\ loc' = [loc EXCEPT ![s] = LocVazio]
    /\ etapas' = [etapas EXCEPT ![s] = <<>>]
    /\ tela' = [tela EXCEPT ![s] = <<>>]
    /\ pc' = [pc EXCEPT ![s] = "painel"]
    /\ UNCHANGED <<arquivo, relogio, painel, gravados>>

\* Lines 262-292: the score, the success message and the chart.
PassoPontuar(s) ==
    /\ pc[s] = "pontuar"
    /\ LET r == calcular_resultados(Valores(loc[s].respostas_usuario))
       IN loc' = [loc EXCEPT ![s].resultados = r.resultados,
                             ![s].carreira_final = r.carreira_final]
    /\ etapas' = [etapas EXCEPT ![s] = Append(@, "pontuar")]
    /\ tela' = [tela EXCEPT ![s] = Append(@, "sucesso")]
    /\ pc' = [pc EXCEPT ![s] = Seguinte(pc[s])]
    /\ UNCHANGED <<arquivo, relogio, painel, gravados>>

\* Lines 295-297: the description of the winner, written to the page.
PassoEnriquecer(s) ==
    /\ pc[s] = "enriquecer"
    /\ \E amb \in AmbientesDoApp :
         LET d == get_gemini_descricao(loc[s].carreira_final, amb)
         IN IF d.tipo = "retorno"
            THEN /\ loc' = [loc EXCEPT ![s].descricao_carreira = d.texto]
                 /\ etapas' = [etapas EXCEPT ![s] = Append(@, "enriquecer")]
                 /\ tela' = [tela EXCEPT ![s] = Append(@, "descricao")]
                 /\ pc' = [pc EXCEPT ![s] = Seguinte(pc[s])]
            ELSE /\ tela' = [tela EXCEPT ![s] = Append(@, "excecao")]
                 /\ pc' = [pc EXCEPT ![s] = "ocioso"]
                 /\ UNCHANGED <<loc, etapas>>
    /\ UNCHANGED <<arquivo, relogio, painel, gravados>>

\* Lines 158-174 of salvar_resultado_csv: the new row is built and the
\* file is read.
PassoLer(s) ==
    /\ pc[s] = "ler"
    /\ loc' = [loc EXCEPT
                 ![s].nova_linha =
                     NovaLinha(relogio, IF loc[s].nome # <<>> THEN loc[s].nome ELSE <<>>,
                               loc[s].resultados, loc[s].carreira_final),
                 ![s].achou = arquivo.existe,
                 ![s].existente =
                     IF arquivo.existe THEN read_csv(arquivo.linhas) ELSE <<>>]
    /\ relogio' = relogio + 1
    /\ pc' = [pc EXCEPT ![s] = Seguinte(pc[s])]
    /\ UNCHANGED <<arquivo, etapas, tela, painel, gravados>>

\* A faulty variant of PassoGravar: the file is read again at the moment of the
\* write, as if the read and the write were one step.
PassoGravarAtomico(s) ==
    /\ pc[s] = "gravar"
    /\ arquivo' = Presente(to_csv(Concatenar(arquivo.existe,
                                             IF arquivo.existe
                                             THEN read_csv(arquivo.linhas) ELSE <<>>,
                                             loc[s].nova_linha)))
    /\ gravados' = Append(gravados,
                          [sessao |-> s, timestamp |-> loc[s].nova_linha.timestamp.s,
                           nome |-> loc[s].nome,
                           carreira_final |-> loc[s].carreira_final,
                           pontos |-> loc[s].resultados,
                           lidos |-> Len(loc[s].existente)])
    /\ loc' = [loc EXCEPT ![s].nova_linha = LinhaVazia, ![s].achou = FALSE,
                          ![s].existente = <<>>]
    /\ etapas' = [etapas EXCEPT ![s] = Append(@, "persistir")]
    /\ pc' = [pc EXCEPT ![s] = Seguinte(pc[s])]
    /\ UNCHANGED <<relogio, tela, painel>>

\* Line 176 of salvar_resultado_csv: the whole file is written.
PassoGravar(s) ==
    /\ pc[s] = "gravar"
    /\ arquivo' = Presente(to_csv(Concatenar(loc[s].achou, loc[s].existente,
                                             loc[s].nova_linha)))
    /\ gravados' = Append(gravados,
                          [sessao |-> s, timestamp |-> loc[s].nova_linha.timestamp.s,
                           nome |-> loc[s].nome,
                           carreira_final |-> loc[s].carreira_final,
                           pontos |-> loc[s].resultados,
                           lidos |-> Len(loc[s].existente)])
    /\ loc' = [loc EXCEPT ![s].nova_linha = LinhaVazia, ![s].achou = FALSE,
                          ![s].existente = <<>>]
    /\ etapas' = [etapas EXCEPT ![s] = Append(@, "persistir")]
    /\ pc' = [pc EXCEPT ![s] = Seguinte(pc[s])]
    /\ UNCHANGED <<relogio, tela, painel>>

\* Line 303: gerar_pdf_relatorio, which reads its arguments and nothing
\* else.
PassoPdf(s) ==
    /\ pc[s] = "pdf"
    /\ loc' = [loc EXCEPT ![s].pdf_bytes = TRUE]
    /\ etapas' = [etapas EXCEPT ![s] = Append(@, "pdf")]
    /\ pc' = [pc EXCEPT ![s] = Seguinte(pc[s])]
    /\ UNCHANGED <<arquivo, relogio, tela, painel, gravados>>

\* Lines 304-313: the download button and the closing note.
PassoResponder(s) ==
    /\ pc[s] = "responder"
    /\ etapas' = [etapas EXCEPT ![s] = Append(@, "responder")]
    /\ tela' = [tela EXCEPT ![s] = @ \o <<"download", "info">>]
    /\ pc' = [pc EXCEPT ![s] = Seguinte(pc[s])]
    /\ UNCHANGED <<arquivo, relogio, loc, painel, gravados>>

\* Lines 316-353: the dashboard tab, which ends the run: FileNotFoundError
\* gives the note, a file gives the total and dist. The run's locals and
\* what it put on the quiz tab end with it.
PassoPainel(s) ==
    /\ pc[s] = "painel"
    /\ painel' = RenderPainel(arquivo)
    /\ tela' = [tela EXCEPT ![s] = <<>>]
    /\ etapas' = [etapas EXCEPT ![s] = <<>>]
    /\ loc' = [loc EXCEPT ![s] = LocVazio]
    /\ pc' = [pc EXCEPT ![s] = "ocioso"]
    /\ UNCHANGED <<arquivo, relogio, gravados>>

(***************************************************************************)
(* Specifications                                                          *)
(***************************************************************************)

AmbienteParado == CHOOSE amb \in AmbientesDoApp : ~amb.lib

ScoreParado ==
    /\ respostas_usuario = <<>>
    /\ resultados = <<>>
    /\ carreira_final = Nada

GeminiParado ==
    /\ carreira_codigo = CARREIRAS[1]
    /\ ambiente = AmbienteParado
    /\ retorno = Pendente

\* The steps of session s, with the names and the forms it may submit.
Execucao(s, nomes, formularios, max_envios) ==
    \/ \E nome \in nomes, respostas \in formularios :
           Enviar(s, nome, respostas, max_envios)
    \/ Visitar(s)
    \/ PassoPontuar(s)
    \/ PassoEnriquecer(s)
    \/ PassoLer(s)
    \/ PassoGravar(s)
    \/ PassoPdf(s)
    \/ PassoResponder(s)
    \/ PassoPainel(s)

Init == InitAppVars /\ ScoreParado /\ GeminiParado

\* The application with one run at a time (section 5 of the spec: the
\* single-writer use): a session starts or continues a run only while the
\* others are idle.
Next ==
    \E s \in Sessoes :
        /\ \A o \in Sessoes \ {s} : pc[o] = "ocioso"
        /\ Execucao(s, NomesDigitados, FormulariosEnviados, MaxEnvios)
        /\ UNCHANGED <<varsScore, varsGemini>>

Spec == Init /\ [][Next]_vars

\* The application with the sessions' runs interleaved at every step, each
\* session being a script thread of its own on the one file.
NextConcorrente ==
    \E s \in Sessoes :
        /\ Execucao(s, NomesConcorrentes, FormulariosConcorrentes, MaxEnviosConcorrentes)
        /\ UNCHANGED <<varsScore, varsGemini>>

SpecConcorrente == Init /\ [][NextConcorrente]_vars

\* calcular_resultados on every answer set within the bound.
InitScore == InitScoreVars /\ InitAppVars /\ GeminiParado

NextScore == Pontuar /\ UNCHANGED <<varsGemini, varsApp>>

SpecScore == InitScore /\ [][NextScore]_vars

\* get_gemini_descricao for every code in every environment.
InitGemini == InitGeminiVars /\ InitAppVars /\ ScoreParado

NextGemini == Enriquecer /\ UNCHANGED <<varsScore, varsApp>>

SpecGemini == InitGemini /\ [][NextGemini]_vars

(***************************************************************************)
(* Properties of calcular_resultados (SpecScore)                           *)
(***************************************************************************)

Pontuado == carreira_final # Nada

\* How many answers of the set are the code c.
Ocorrencias(c) ==
    Cardinality({i \in 1..Len(respostas_usuario) : respostas_usuario[i] = c})

RECURSIVE SomaPontos(_, _)
SomaPontos(res, i) ==
    IF i > Len(CARREIRAS) THEN 0 ELSE res[CARREIRAS[i]] + SomaPontos(res, i + 1)

\* C1: the winner returned has the largest of the counts returned, and
\* every category that precedes it in the registry order has a smaller
\* count: among the categories at the maximum the winner is the first.
C1_VencedorPrimeiroMaximo ==
    Pontuado =>
        \E i \in 1..Len(CARREIRAS) :
            /\ carreira_final = CARREIRAS[i]
            /\ \A c \in Codigos : resultados[c] <= resultados[carreira_final]
            /\ \A j \in 1..(i - 1) :
                   resultados[CARREIRAS[j]] < resultados[carreira_final]

\* C1, its case: one answer for each of the four categories, a four-way
\* tie, has been scored and the winner is advocacia.
C1_Witness ==
    /\ Pontuado
    /\ Len(respostas_usuario) = Len(CARREIRAS)
    /\ \A c \in Codigos : Ocorrencias(c) = 1
    /\ carreira_final = "advocacia"

\* C2: when every answer is a code of the registry, the counts returned
\* are non-negative and add up to the number of questions.
C2_SomaIgualPerguntas ==
    (Pontuado /\ \A i \in 1..Len(respostas_usuario) : respostas_usuario[i] \in Codigos)
        => /\ \A c \in Codigos : resultados[c] >= 0
           /\ SomaPontos(resultados, 1) = Len(respostas_usuario)

\* C2, its case: a scored answer set of recognized codes in which one
\* category was chosen more than once.
C2_Witness ==
    /\ Pontuado
    /\ Len(respostas_usuario) >= 3
    /\ \A i \in 1..Len(respostas_usuario) : respostas_usuario[i] \in Codigos
    /\ \E c \in Codigos : Ocorrencias(c) >= 2

\* C10: the result has exactly the registry's keys, and the count of each
\* category is the number of answers equal to its code: a null answer or
\* an unknown code raises no counter and adds no key.
C10_IgnoraNuloEDesconhecido ==
    Pontuado =>
        /\ DOMAIN resultados = Codigos
        /\ \A c \in Codigos : resultados[c] = Ocorrencias(c)

\* C10, its case: a scored answer set that holds a null answer, an unknown
\* code and a recognized one.
C10_Witness ==
    /\ Pontuado
    /\ Ocorrencias(None) >= 1
    /\ Ocorrencias(Desconhecido) >= 1
    /\ \E c \in Codigos : Ocorrencias(c) >= 1

(***************************************************************************)
(* Properties of get_gemini_descricao (SpecGemini)                         *)
(***************************************************************************)

\* A generation call that raised, or gave no text (None or "").
SemTexto(r) == r.levanta \/ r.sem_text \/ r.text = <<>>

\* The service is unconfigured or failed: the library is missing, there is
\* no key, or no attempt gave a text (the client could not be built or its
\* call gave none, and the alternative call gave none).
ServicoFalhou(amb) ==
    \/ ~amb.lib
    \/ (amb.secrets # "chave" /\ amb.environ # "chave")
    \/ /\ (amb.client = "levanta" \/ SemTexto(amb.generate_content))
       /\ SemTexto(amb.generate_text)

\* C5: the call never raises, and when the service is unconfigured or
\* failed it returns exactly DESCRICOES_BASE[code].
C5_FallbackExato ==
    retorno # Pendente =>
        /\ retorno.tipo = "retorno"
        /\ ServicoFalhou(ambiente) => retorno.texto = DESCRICOES_BASE[carreira_codigo]

(***************************************************************************)
(* Properties of the application (Spec, SpecConcorrente)                   *)
(***************************************************************************)

\* The file as read_csv gives it; no rows when there is no file.
Lido == IF arquivo.existe THEN read_csv(arquivo.linhas) ELSE <<>>

\* C3: the file read back holds the records written, in the order they
\* were written, each with its name, winner and counts (a name is
\* compared as text, so that an empty name and a missing one agree).
C3_ArquivoGuardaRegistros ==
    /\ Len(Lido) = Len(gravados)
    /\ \A i \in 1..Len(gravados) :
           /\ FormatCell(Lido[i].nome) = gravados[i].nome
           /\ Lido[i].carreira_final = VStr(<<gravados[i].carreira_final>>)
           /\ \A c \in Codigos : Lido[i].pontos[c] = VInt(gravados[i].pontos[c])

\* A session's step from position p to position q.
Passou(s, p, q) == pc[s] = p /\ pc'[s] = q

\* C4: a run whose form has a question without a selection shows the
\* validation message and does nothing else before the dashboard tab: no
\* score, no description, no document, and no step of it changes the file.
C4_FormularioIncompletoRejeitado ==
    /\ [](\A s \in Sessoes :
            loc[s].nulo =>
                /\ pc[s] = "painel"
                /\ etapas[s] = <<"validar">>
                /\ tela[s] = <<"erro">>
                /\ loc[s].resultados = Zerado
                /\ loc[s].carreira_final = Nada
                /\ loc[s].descricao_carreira = <<>>
                /\ ~loc[s].pdf_bytes)
    /\ [][\A s \in Sessoes :
            (loc[s].nulo /\ pc'[s] # pc[s]) =>
                (arquivo' = arquivo /\ gravados' = gravados)]_vars

\* C4, its case: a form with a missing selection was submitted while the
\* file held a record, and was rejected.
C4_Witness ==
    \E s \in Sessoes :
        /\ loc[s].nulo
        /\ tela[s] = <<"erro">>
        /\ arquivo.existe

\* The text row of the record that session s is about to write.
LinhaEsperada(s) ==
    Linha(loc[s].nova_linha.timestamp.s, loc[s].nome, <<loc[s].carreira_final>>,
          [c \in Codigos |-> IntParaTexto(loc[s].resultados[c])])

\* C6: with no file, the dashboard shows its no-data note and the read of
\* salvar_resultado_csv gives no rows and puts no error on the page; the
\* write that follows creates the file with the new record alone.
C6_ArquivoAusenteNaoEErro ==
    [][\A s \in Sessoes :
        /\ (Passou(s, "painel", "ocioso") /\ ~arquivo.existe)
               => painel' = PainelSemDados
        /\ (Passou(s, "ler", "gravar") /\ ~arquivo.existe)
               => (loc'[s].existente = <<>> /\ tela'[s] = tela[s])
        /\ (Passou(s, "gravar", "pdf") /\ ~loc[s].achou)
               => arquivo' = Presente(<<LinhaEsperada(s)>>)]_vars

\* C6, its case: the dashboard was rendered without a file, and then a
\* first submission created the file with one record.
C6_Witness ==
    /\ painel = PainelSemDados
    /\ arquivo.existe
    /\ Len(arquivo.linhas) = 1
    /\ Len(gravados) = 1

\* The number of stored records whose winner is c.
Venceu(c) ==
    Cardinality({i \in 1..Len(arquivo.linhas) : arquivo.linhas[i].carreira_final = <<c>>})

\* The row of dist for code c is the count n and its share of the total.
LinhaDist(d, c, n, total) ==
    /\ d[<<c>>].carreira = <<c>>
    /\ d[<<c>>].qtd = n
    /\ d[<<c>>].Percentual.num * total = n * 100 * d[<<c>>].Percentual.den

\* C7 as stated: the dashboard of a non-empty file gives every one of the
\* four categories a count (0 when it never won) and a share.
C7_QuatroCategorias ==
    [][\A s \in Sessoes :
        (Passou(s, "painel", "ocioso") /\ arquivo.existe) =>
            \A c \in Codigos :
                /\ <<c>> \in DOMAIN painel'.dist
                /\ LinhaDist(painel'.dist, c, Venceu(c), Len(arquivo.linhas))]_vars

\* C7, amended: the dashboard of a non-empty file gives each category that
\* won at least once its number of wins and that number's share of the
\* total; a category that never won has no row, and there is no other row.
C7_SoCategoriasVencedoras ==
    [][\A s \in Sessoes :
        (Passou(s, "painel", "ocioso") /\ arquivo.existe) =>
            /\ painel'.tipo = "dados"
            /\ painel'.total = Len(arquivo.linhas)
            /\ DOMAIN painel'.dist = {<<c>> : c \in {k \in Codigos : Venceu(k) > 0}}
            /\ \A c \in Codigos :
                   Venceu(c) > 0 =>
                       LinhaDist(painel'.dist, c, Venceu(c), Len(arquivo.linhas))]_vars

\* C7, its case: the dashboard shows two records with the same winner, the
\* other categories having no row.
C7_Witness ==
    /\ painel.tipo = "dados"
    /\ painel.total = 2
    /\ DOMAIN painel.dist = {<<"magistratura">>}
    /\ painel.dist[<<"magistratura">>].qtd = 2

\* The steps of an accepted run, in the order the spec gives.
OrdemDoSpec == <<"validar", "pontuar", "persistir", "enriquecer", "pdf", "responder">>

\* The steps of an accepted run, in the order of the code.
OrdemDoCodigo == <<"validar", "pontuar", "enriquecer", "persistir", "pdf", "responder">>

EhPrefixo(p, t) == Len(p) <= Len(t) /\ p = SubSeq(t, 1, Len(p))

\* C9 as stated: a run's steps follow validate, score, persist, enrich,
\* render, respond, the record being saved before the description is asked.
C9_PersisteAntesDeEnriquecer ==
    \A s \in Sessoes : EhPrefixo(etapas[s], OrdemDoSpec)

\* C9, amended: a run's steps follow validate, score, enrich, persist,
\* render, respond: the description is asked before the record is saved.
C9_EnriqueceAntesDePersistir ==
    \A s \in Sessoes : EhPrefixo(etapas[s], OrdemDoCodigo)

\* C9, its case: an accepted run has made all six steps.
C9_Witness == \E s \in Sessoes : Len(etapas[s]) = Len(OrdemDoCodigo)

\* The last two writes read the same number of rows: the later one read
\* before the earlier one wrote.
CorridaNasDuasUltimas ==
    /\ Len(gravados) >= 2
    /\ gravados[Len(gravados)].lidos = gravados[Len(gravados) - 1].lidos

TimestampsNoArquivo == {arquivo.linhas[i].timestamp : i \in 1..Len(arquivo.linhas)}

\* C8: when two calls of salvar_resultado_csv have read the same K rows
\* and both have written, the file holds K+1 rows, the later writer's
\* record is in it, the earlier writer's is not, and no run has shown an
\* error.
C8_AtualizacaoPerdida ==
    CorridaNasDuasUltimas =>
        LET n == Len(gravados)
        IN /\ Len(arquivo.linhas) = gravados[n].lidos + 1
           /\ gravados[n].timestamp \in TimestampsNoArquivo
           /\ gravados[n - 1].timestamp \notin TimestampsNoArquivo
           /\ \A s \in Sessoes : \A i \in 1..Len(tela[s]) : tela[s][i] # "excecao"

\* C8, its case: two sessions read the file when it had one row, and both
\* have written.
C8_Witness ==
    /\ CorridaNasDuasUltimas
    /\ gravados[Len(gravados)].lidos = 1
    /\ gravados[Len(gravados)].sessao # gravados[Len(gravados) - 1].sessao

====
